---- MODULE Spec2Model ----
\* Soil testing service: the fertilizer recommendation engine and the soil
\* health score of utils.py, and the HTTP handlers of app.py over the
\* SoilTestDB store of models.py.
\*
\* Numbers.  The measurements are Python floats.  They are modelled as
\* fixed-point numbers with four decimals: the integer v stands for v / 10000,
\* so Dec(5, 5000) is 5.5 and Dec(7, 5001) is 7.5001.  Every threshold of the
\* code is a decimal with at most one fractional digit, so comparing the
\* fixed-point numbers orders them exactly as the code's float comparisons do.
\* The health score sums 0.4, 0.7 and 1 and turns the sum into a percentage;
\* both are fixed-point numbers too (in Python the float sum, the division by
\* 4 and the multiplication by 100 give the float nearest the exact decimal
\* for all 256 combinations of contributions, and the status comparisons and
\* round(x, 1) agree with exact arithmetic on every one of them).
\*
\* Text.  An f-string is modelled by F(template, args): its template with {}
\* for each interpolated value, and the values in order.  A plain string
\* literal is F(literal, <<>>), the empty string is F("", <<>>).
EXTENDS Integers, Sequences, FiniteSets, TLC

VARIABLES
    soil_test,        \* the SoilTest handed to the two pure functions
    recommendations,  \* <<>> or <<result of generate_fertilizer_recommendations>>
    health,           \* <<>> or <<result of analyze_soil_health>>
    dosage,           \* <<>> or <<results of the five calculate_*_requirement helpers>>
    db,               \* the soil_tests table: id -> row, for the ids present
    last_id,          \* the table's AUTOINCREMENT sequence (largest id handed out)
    response          \* <<>> or <<the last HTTP response>>

vars == <<soil_test, recommendations, health, dosage, db, last_id, response>>

\* ---------------------------------------------------------------- numbers

\* The float whole.frac4 (frac4 in ten-thousandths), as a fixed-point number.
Dec(whole, frac4) == whole * 10000 + frac4

\* An f-string or string literal.
F(template, args) == [template |-> template, args |-> args]

\* ---------------------------------------------------------------- bounds

\* How many steps past the physical ranges (ph 0..14, ppm >= 0) the inputs go.
MaxOut == 1

\* How many rows the API specification ever inserts.
MaxTests == 2

\* ---------------------------------------------------------------- models.py

\* SoilTest.__init__ (test_date: the caller's value, or today's date when the
\* caller's value is falsy: None or '').  Optional values are <<>> or <<v>>.
SoilTest(id, location, latitude, longitude, ph, nitrogen, phosphorus, potassium, notes, test_date, today) ==
    [id |-> id, location |-> location, latitude |-> latitude,
     longitude |-> longitude, ph |-> ph, nitrogen |-> nitrogen,
     phosphorus |-> phosphorus, potassium |-> potassium, notes |-> notes,
     test_date |-> IF test_date = <<>> \/ test_date = <<"">> THEN today
                   ELSE test_date[1]]

\* SoilTest.to_dict
to_dict(self) ==
    [id |-> self.id, location |-> self.location, latitude |-> self.latitude,
     longitude |-> self.longitude, ph |-> self.ph, nitrogen |-> self.nitrogen,
     phosphorus |-> self.phosphorus, potassium |-> self.potassium,
     notes |-> self.notes, testDate |-> self.test_date]

\* ---------------------------------------------------------------- utils.py: dosage helpers

\* Mutant of calculate_lime_requirement: the bands include their upper ends (<= for <).
calculate_lime_requirement_Inclusive(ph) ==
    IF ph <= Dec(5, 0) THEN 15
    ELSE IF ph <= Dec(5, 5000) THEN 12
    ELSE IF ph <= Dec(6, 0) THEN 8
    ELSE 5

calculate_lime_requirement(ph) ==
    IF ph < Dec(5, 0) THEN 15
    ELSE IF ph < Dec(5, 5000) THEN 12
    ELSE IF ph < Dec(6, 0) THEN 8
    ELSE 5

\* Mutant of calculate_sulfur_requirement: the two lower dosages are exchanged.
calculate_sulfur_requirement_Swapped(ph) ==
    IF ph > Dec(8, 0) THEN 10
    ELSE IF ph > Dec(7, 5000) THEN 3
    ELSE 6

calculate_sulfur_requirement(ph) ==
    IF ph > Dec(8, 0) THEN 10
    ELSE IF ph > Dec(7, 5000) THEN 6
    ELSE 3

\* Mutant of calculate_nitrogen_requirement: the second band ends at 15, below
\* the 20 at which the engine stops calling it.
calculate_nitrogen_requirement_LowBelow15(nitrogen) ==
    IF nitrogen < Dec(10, 0) THEN 4
    ELSE IF nitrogen < Dec(15, 0) THEN 2
    ELSE 1

calculate_nitrogen_requirement(nitrogen) ==
    IF nitrogen < Dec(10, 0) THEN 4
    ELSE IF nitrogen < Dec(20, 0) THEN 2
    ELSE 1

calculate_phosphorus_requirement(phosphorus) ==
    IF phosphorus < Dec(5, 0) THEN 3
    ELSE IF phosphorus < Dec(15, 0) THEN 2
    ELSE 1

calculate_potassium_requirement(potassium) ==
    IF potassium < Dec(50, 0) THEN 4
    ELSE IF potassium < Dec(100, 0) THEN 3
    ELSE 1

\* ---------------------------------------------------------------- utils.py: the engine

\* One entry of the actions list.
Action(type, action, amount, priority) ==
    [type |-> type, action |-> action, amount |-> amount, priority |-> priority]

\* The function's locals after "actions = []": the recommendations dict and
\* the actions list.
InitialRecommendations ==
    [recommendations |->
        [overall |-> F("", <<>>),
         ph_recommendation |-> F("", <<>>),
         nitrogen_recommendation |-> F("", <<>>),
         phosphorus_recommendation |-> F("", <<>>),
         potassium_recommendation |-> F("", <<>>),
         priority |-> "medium",
         actions |-> <<>>],
     actions |-> <<>>]

\* Mutant of PhAnalysis: alkaline from 7.5 on (>= for >).
PhAnalysis_AlkalineFrom75(test, st) ==
    IF test.ph < Dec(6, 0) THEN
        [recommendations |->
            [st.recommendations EXCEPT
                !.ph_recommendation = F("Soil is acidic (pH {}). Apply lime to raise pH to 6.0-7.0 range for optimal nutrient availability.", <<test.ph>>),
                !.priority = "high"],
         actions |-> Append(st.actions,
            Action("pH adjustment", "Apply agricultural lime",
                   F("{} lbs per 1000 sq ft", <<calculate_lime_requirement(test.ph)>>),
                   "high"))]
    ELSE IF test.ph >= Dec(7, 5000) THEN
        [recommendations |->
            [st.recommendations EXCEPT
                !.ph_recommendation = F("Soil is alkaline (pH {}). Apply sulfur or organic matter to lower pH.", <<test.ph>>),
                !.priority = "high"],
         actions |-> Append(st.actions,
            Action("pH adjustment", "Apply elemental sulfur",
                   F("{} lbs per 1000 sq ft", <<calculate_sulfur_requirement(test.ph)>>),
                   "high"))]
    ELSE
        [st EXCEPT !.recommendations.ph_recommendation =
            F("pH level ({}) is optimal for most crops.", <<test.ph>>)]

\* "pH Analysis and Recommendations"
PhAnalysis(test, st) ==
    IF test.ph < Dec(6, 0) THEN
        [recommendations |->
            [st.recommendations EXCEPT
                !.ph_recommendation = F("Soil is acidic (pH {}). Apply lime to raise pH to 6.0-7.0 range for optimal nutrient availability.", <<test.ph>>),
                !.priority = "high"],
         actions |-> Append(st.actions,
            Action("pH adjustment", "Apply agricultural lime",
                   F("{} lbs per 1000 sq ft", <<calculate_lime_requirement(test.ph)>>),
                   "high"))]
    ELSE IF test.ph > Dec(7, 5000) THEN
        [recommendations |->
            [st.recommendations EXCEPT
                !.ph_recommendation = F("Soil is alkaline (pH {}). Apply sulfur or organic matter to lower pH.", <<test.ph>>),
                !.priority = "high"],
         actions |-> Append(st.actions,
            Action("pH adjustment", "Apply elemental sulfur",
                   F("{} lbs per 1000 sq ft", <<calculate_sulfur_requirement(test.ph)>>),
                   "high"))]
    ELSE
        [st EXCEPT !.recommendations.ph_recommendation =
            F("pH level ({}) is optimal for most crops.", <<test.ph>>)]

\* Mutant of NitrogenAnalysis: the adequate branch sets no message.
NitrogenAnalysis_NoAdequateMessage(test, st) ==
    IF test.nitrogen < Dec(20, 0) THEN
        [recommendations |->
            [st.recommendations EXCEPT !.nitrogen_recommendation =
                F("Low nitrogen levels ({} ppm). Apply nitrogen-rich fertilizer or compost.", <<test.nitrogen>>)],
         actions |-> Append(st.actions,
            Action("nitrogen", "Apply nitrogen fertilizer (21-0-0 or similar)",
                   F("{} lbs per 1000 sq ft", <<calculate_nitrogen_requirement(test.nitrogen)>>),
                   "medium"))]
    ELSE IF test.nitrogen > Dec(50, 0) THEN
        [recommendations |->
            [st.recommendations EXCEPT !.nitrogen_recommendation =
                F("High nitrogen levels ({} ppm). Reduce nitrogen fertilization to prevent burning and runoff.", <<test.nitrogen>>)],
         actions |-> Append(st.actions,
            Action("nitrogen", "Reduce or skip nitrogen fertilization",
                   F("Monitor and test again in 6 months", <<>>),
                   "low"))]
    ELSE
        st

\* Mutant of NitrogenAnalysis: the deficiency action is inserted at the head of the list.
NitrogenAnalysis_InsertsFirst(test, st) ==
    IF test.nitrogen < Dec(20, 0) THEN
        [recommendations |->
            [st.recommendations EXCEPT !.nitrogen_recommendation =
                F("Low nitrogen levels ({} ppm). Apply nitrogen-rich fertilizer or compost.", <<test.nitrogen>>)],
         actions |-> <<Action("nitrogen", "Apply nitrogen fertilizer (21-0-0 or similar)",
                   F("{} lbs per 1000 sq ft", <<calculate_nitrogen_requirement(test.nitrogen)>>),
                   "medium")>> \o st.actions]
    ELSE IF test.nitrogen > Dec(50, 0) THEN
        [recommendations |->
            [st.recommendations EXCEPT !.nitrogen_recommendation =
                F("High nitrogen levels ({} ppm). Reduce nitrogen fertilization to prevent burning and runoff.", <<test.nitrogen>>)],
         actions |-> Append(st.actions,
            Action("nitrogen", "Reduce or skip nitrogen fertilization",
                   F("Monitor and test again in 6 months", <<>>),
                   "low"))]
    ELSE
        [st EXCEPT !.recommendations.nitrogen_recommendation =
            F("Nitrogen levels ({} ppm) are adequate.", <<test.nitrogen>>)]

\* "Nitrogen Analysis and Recommendations"
NitrogenAnalysis(test, st) ==
    IF test.nitrogen < Dec(20, 0) THEN
        [recommendations |->
            [st.recommendations EXCEPT !.nitrogen_recommendation =
                F("Low nitrogen levels ({} ppm). Apply nitrogen-rich fertilizer or compost.", <<test.nitrogen>>)],
         actions |-> Append(st.actions,
            Action("nitrogen", "Apply nitrogen fertilizer (21-0-0 or similar)",
                   F("{} lbs per 1000 sq ft", <<calculate_nitrogen_requirement(test.nitrogen)>>),
                   "medium"))]
    ELSE IF test.nitrogen > Dec(50, 0) THEN
        [recommendations |->
            [st.recommendations EXCEPT !.nitrogen_recommendation =
                F("High nitrogen levels ({} ppm). Reduce nitrogen fertilization to prevent burning and runoff.", <<test.nitrogen>>)],
         actions |-> Append(st.actions,
            Action("nitrogen", "Reduce or skip nitrogen fertilization",
                   F("Monitor and test again in 6 months", <<>>),
                   "low"))]
    ELSE
        [st EXCEPT !.recommendations.nitrogen_recommendation =
            F("Nitrogen levels ({} ppm) are adequate.", <<test.nitrogen>>)]

\* Mutant of PhosphorusAnalysis: the excess action has priority medium.
PhosphorusAnalysis_ExcessMedium(test, st) ==
    IF test.phosphorus < Dec(15, 0) THEN
        [recommendations |->
            [st.recommendations EXCEPT !.phosphorus_recommendation =
                F("Low phosphorus levels ({} ppm). Apply phosphorus fertilizer for strong root development.", <<test.phosphorus>>)],
         actions |-> Append(st.actions,
            Action("phosphorus", "Apply phosphorus fertilizer (0-46-0 or bone meal)",
                   F("{} lbs per 1000 sq ft", <<calculate_phosphorus_requirement(test.phosphorus)>>),
                   "medium"))]
    ELSE IF test.phosphorus > Dec(50, 0) THEN
        [recommendations |->
            [st.recommendations EXCEPT !.phosphorus_recommendation =
                F("High phosphorus levels ({} ppm). Avoid phosphorus fertilizers.", <<test.phosphorus>>)],
         actions |-> Append(st.actions,
            Action("phosphorus", "Skip phosphorus fertilization",
                   F("Use low or no-phosphorus fertilizers", <<>>),
                   "medium"))]
    ELSE
        [st EXCEPT !.recommendations.phosphorus_recommendation =
            F("Phosphorus levels ({} ppm) are sufficient.", <<test.phosphorus>>)]

\* "Phosphorus Analysis and Recommendations"
PhosphorusAnalysis(test, st) ==
    IF test.phosphorus < Dec(15, 0) THEN
        [recommendations |->
            [st.recommendations EXCEPT !.phosphorus_recommendation =
                F("Low phosphorus levels ({} ppm). Apply phosphorus fertilizer for strong root development.", <<test.phosphorus>>)],
         actions |-> Append(st.actions,
            Action("phosphorus", "Apply phosphorus fertilizer (0-46-0 or bone meal)",
                   F("{} lbs per 1000 sq ft", <<calculate_phosphorus_requirement(test.phosphorus)>>),
                   "medium"))]
    ELSE IF test.phosphorus > Dec(50, 0) THEN
        [recommendations |->
            [st.recommendations EXCEPT !.phosphorus_recommendation =
                F("High phosphorus levels ({} ppm). Avoid phosphorus fertilizers.", <<test.phosphorus>>)],
         actions |-> Append(st.actions,
            Action("phosphorus", "Skip phosphorus fertilization",
                   F("Use low or no-phosphorus fertilizers", <<>>),
                   "low"))]
    ELSE
        [st EXCEPT !.recommendations.phosphorus_recommendation =
            F("Phosphorus levels ({} ppm) are sufficient.", <<test.phosphorus>>)]

\* Mutant of PotassiumAnalysis: high from 300 on (>= for >).
PotassiumAnalysis_HighFrom300(test, st) ==
    IF test.potassium < Dec(100, 0) THEN
        [recommendations |->
            [st.recommendations EXCEPT !.potassium_recommendation =
                F("Low potassium levels ({} ppm). Apply potassium fertilizer for plant health and disease resistance.", <<test.potassium>>)],
         actions |-> Append(st.actions,
            Action("potassium", "Apply potassium fertilizer (0-0-60 or potash)",
                   F("{} lbs per 1000 sq ft", <<calculate_potassium_requirement(test.potassium)>>),
                   "medium"))]
    ELSE IF test.potassium >= Dec(300, 0) THEN
        [recommendations |->
            [st.recommendations EXCEPT !.potassium_recommendation =
                F("High potassium levels ({} ppm). Reduce potassium fertilization.", <<test.potassium>>)],
         actions |-> Append(st.actions,
            Action("potassium", "Reduce potassium fertilization",
                   F("Monitor levels and retest in 12 months", <<>>),
                   "low"))]
    ELSE
        [st EXCEPT !.recommendations.potassium_recommendation =
            F("Potassium levels ({} ppm) are adequate.", <<test.potassium>>)]

\* "Potassium Analysis and Recommendations"
PotassiumAnalysis(test, st) ==
    IF test.potassium < Dec(100, 0) THEN
        [recommendations |->
            [st.recommendations EXCEPT !.potassium_recommendation =
                F("Low potassium levels ({} ppm). Apply potassium fertilizer for plant health and disease resistance.", <<test.potassium>>)],
         actions |-> Append(st.actions,
            Action("potassium", "Apply potassium fertilizer (0-0-60 or potash)",
                   F("{} lbs per 1000 sq ft", <<calculate_potassium_requirement(test.potassium)>>),
                   "medium"))]
    ELSE IF test.potassium > Dec(300, 0) THEN
        [recommendations |->
            [st.recommendations EXCEPT !.potassium_recommendation =
                F("High potassium levels ({} ppm). Reduce potassium fertilization.", <<test.potassium>>)],
         actions |-> Append(st.actions,
            Action("potassium", "Reduce potassium fertilization",
                   F("Monitor levels and retest in 12 months", <<>>),
                   "low"))]
    ELSE
        [st EXCEPT !.recommendations.potassium_recommendation =
            F("Potassium levels ({} ppm) are adequate.", <<test.potassium>>)]

\* Mutant of OverallRecommendation: the final else branch sets the message but not the priority.
OverallRecommendation_NoFinalPriority(st) ==
    LET high_priority_actions ==
            SelectSeq(st.actions, LAMBDA a : a.priority = "high")
        medium_priority_actions ==
            SelectSeq(st.actions, LAMBDA a : a.priority = "medium")
    IN  IF high_priority_actions # <<>> THEN
            [st.recommendations EXCEPT
                !.overall = F("Immediate attention required for soil pH adjustment. Address pH issues first, then nutrient deficiencies.", <<>>),
                !.priority = "high",
                !.actions = st.actions]
        ELSE IF medium_priority_actions # <<>> THEN
            [st.recommendations EXCEPT
                !.overall = F("Moderate nutrient deficiencies detected. Apply recommended fertilizers for optimal plant growth.", <<>>),
                !.priority = "medium",
                !.actions = st.actions]
        ELSE
            [st.recommendations EXCEPT
                !.overall = F("Soil nutrient levels are generally good. Continue regular monitoring and maintenance.", <<>>),
                !.actions = st.actions]

\* "Overall recommendation": the roll-up over the actions list, then
\* recommendations['actions'] = actions.
OverallRecommendation(st) ==
    LET high_priority_actions ==
            SelectSeq(st.actions, LAMBDA a : a.priority = "high")
        medium_priority_actions ==
            SelectSeq(st.actions, LAMBDA a : a.priority = "medium")
    IN  IF high_priority_actions # <<>> THEN
            [st.recommendations EXCEPT
                !.overall = F("Immediate attention required for soil pH adjustment. Address pH issues first, then nutrient deficiencies.", <<>>),
                !.priority = "high",
                !.actions = st.actions]
        ELSE IF medium_priority_actions # <<>> THEN
            [st.recommendations EXCEPT
                !.overall = F("Moderate nutrient deficiencies detected. Apply recommended fertilizers for optimal plant growth.", <<>>),
                !.priority = "medium",
                !.actions = st.actions]
        ELSE
            [st.recommendations EXCEPT
                !.overall = F("Soil nutrient levels are generally good. Continue regular monitoring and maintenance.", <<>>),
                !.priority = "low",
                !.actions = st.actions]

generate_fertilizer_recommendations(test) ==
    OverallRecommendation(
        PotassiumAnalysis(test,
            PhosphorusAnalysis(test,
                NitrogenAnalysis(test,
                    PhAnalysis(test, InitialRecommendations)))))

\* ---------------------------------------------------------------- utils.py: the health score

\* "pH score": the contribution of ph to health_score.
PhScore(ph) ==
    IF Dec(6, 0) <= ph /\ ph <= Dec(7, 0) THEN Dec(1, 0)
    ELSE IF Dec(5, 5000) <= ph /\ ph <= Dec(7, 5000) THEN Dec(0, 7000)
    ELSE IF Dec(5, 0) <= ph /\ ph <= Dec(8, 0) THEN Dec(0, 4000)
    ELSE 0

\* Mutant of NitrogenScore: the tightest band excludes its lower end (< for <=).
NitrogenScore_Exclusive(nitrogen) ==
    IF Dec(20, 0) < nitrogen /\ nitrogen <= Dec(50, 0) THEN Dec(1, 0)
    ELSE IF Dec(15, 0) <= nitrogen /\ nitrogen <= Dec(60, 0) THEN Dec(0, 7000)
    ELSE IF Dec(10, 0) <= nitrogen /\ nitrogen <= Dec(80, 0) THEN Dec(0, 4000)
    ELSE 0

\* "Nitrogen score"
NitrogenScore(nitrogen) ==
    IF Dec(20, 0) <= nitrogen /\ nitrogen <= Dec(50, 0) THEN Dec(1, 0)
    ELSE IF Dec(15, 0) <= nitrogen /\ nitrogen <= Dec(60, 0) THEN Dec(0, 7000)
    ELSE IF Dec(10, 0) <= nitrogen /\ nitrogen <= Dec(80, 0) THEN Dec(0, 4000)
    ELSE 0

\* "Phosphorus score"
PhosphorusScore(phosphorus) ==
    IF Dec(15, 0) <= phosphorus /\ phosphorus <= Dec(50, 0) THEN Dec(1, 0)
    ELSE IF Dec(10, 0) <= phosphorus /\ phosphorus <= Dec(60, 0) THEN Dec(0, 7000)
    ELSE IF Dec(5, 0) <= phosphorus /\ phosphorus <= Dec(80, 0) THEN Dec(0, 4000)
    ELSE 0

\* "Potassium score"
PotassiumScore(potassium) ==
    IF Dec(100, 0) <= potassium /\ potassium <= Dec(300, 0) THEN Dec(1, 0)
    ELSE IF Dec(75, 0) <= potassium /\ potassium <= Dec(400, 0) THEN Dec(0, 7000)
    ELSE IF Dec(50, 0) <= potassium /\ potassium <= Dec(500, 0) THEN Dec(0, 4000)
    ELSE 0

\* round(x, 1) for x >= 0: the nearest multiple of 0.1 (the percentage is
\* always a multiple of 2.5, so no tie arises).
Round1(x) == ((x + 500) \div 1000) * 1000

\* health_percentage = (health_score / total_factors) * 100
HealthPercentage(health_score) == (health_score * 100) \div 4

\* Mutant of HealthStatus: the thresholds are exclusive (> for >=).
HealthStatus_Strict(health_percentage) ==
    IF health_percentage > Dec(80, 0) THEN "Excellent"
    ELSE IF health_percentage > Dec(60, 0) THEN "Good"
    ELSE IF health_percentage > Dec(40, 0) THEN "Fair"
    ELSE "Poor"

\* The status chosen from health_percentage.
HealthStatus(health_percentage) ==
    IF health_percentage >= Dec(80, 0) THEN "Excellent"
    ELSE IF health_percentage >= Dec(60, 0) THEN "Good"
    ELSE IF health_percentage >= Dec(40, 0) THEN "Fair"
    ELSE "Poor"

\* The description that goes with each status.
HealthDescription(health_status) ==
    CASE health_status = "Excellent" -> "Your soil is in excellent condition with optimal nutrient levels."
      [] health_status = "Good" -> "Your soil is in good condition with minor adjustments needed."
      [] health_status = "Fair" -> "Your soil needs some attention to improve nutrient levels."
      [] OTHER -> "Your soil requires significant improvement in multiple areas."

analyze_soil_health(test) ==
    LET health_score == PhScore(test.ph) + NitrogenScore(test.nitrogen)
                        + PhosphorusScore(test.phosphorus)
                        + PotassiumScore(test.potassium)
        health_percentage == HealthPercentage(health_score)
        health_status == HealthStatus(health_percentage)
    IN  [score |-> Round1(health_percentage),
         status |-> health_status,
         description |-> HealthDescription(health_status)]

\* ---------------------------------------------------------------- inputs of the pure functions

\* The values that decide a comparison with a threshold (given in tenths):
\* for a lower threshold t (x < t, t <= x) the values t - 0.0001 and t, for an
\* upper threshold t (x > t, x <= t) the values t and t + 0.0001.
Boundaries(lower, upper) ==
    {Dec(0, 1000 * t + d) : t \in lower, d \in {-1, 0}}
    \cup {Dec(0, 1000 * t + d) : t \in upper, d \in {0, 1}}

\* Values past the low end of a physical range: -1, -2, ...
Negative == {Dec(-k, 0) : k \in 1..MaxOut}

\* ph: the thresholds of the engine, the dosage helpers and the health score,
\* 5.999, the ends 0 and 14 of the physical range, and values past them.
PhInputs ==
    Boundaries({50, 55, 60}, {70, 75, 80})
    \cup {Dec(5, 9990), Dec(0, 0), Dec(14, 0)}
    \cup Negative \cup {Dec(14 + k, 0) : k \in 1..MaxOut}

NitrogenInputs ==
    Boundaries({100, 150, 200}, {500, 600, 800}) \cup {Dec(0, 0)} \cup Negative

PhosphorusInputs ==
    Boundaries({50, 100, 150}, {500, 600, 800}) \cup {Dec(0, 0)} \cup Negative

PotassiumInputs ==
    Boundaries({500, 750, 1000}, {3000, 4000, 5000}) \cup {Dec(0, 0)} \cup Negative

\* ---------------------------------------------------------------- the pure functions, applied

Init ==
    /\ \E ph \in PhInputs, nitrogen \in NitrogenInputs,
          phosphorus \in PhosphorusInputs, potassium \in PotassiumInputs :
            soil_test = SoilTest(<<>>, "Field A", <<>>, <<>>, ph, nitrogen, phosphorus, potassium, "", <<>>, "2024-05-01")
    /\ recommendations = <<>>
    /\ health = <<>>
    /\ dosage = <<>>
    /\ db = <<>>
    /\ last_id = 0
    /\ response = <<>>

\* A call of generate_fertilizer_recommendations(soil_test).
Recommend ==
    /\ recommendations = <<>>
    /\ recommendations' = <<generate_fertilizer_recommendations(soil_test)>>
    /\ UNCHANGED <<soil_test, health, dosage, db, last_id, response>>

\* A call of analyze_soil_health(soil_test).
Analyze ==
    /\ health = <<>>
    /\ health' = <<analyze_soil_health(soil_test)>>
    /\ UNCHANGED <<soil_test, recommendations, dosage, db, last_id, response>>

\* A call of each of the five dosage helpers on the soil test's measurements.
Dosage ==
    /\ dosage = <<>>
    /\ dosage' = <<[lime |-> calculate_lime_requirement(soil_test.ph),
                    sulfur |-> calculate_sulfur_requirement(soil_test.ph),
                    nitrogen |-> calculate_nitrogen_requirement(soil_test.nitrogen),
                    phosphorus |-> calculate_phosphorus_requirement(soil_test.phosphorus),
                    potassium |-> calculate_potassium_requirement(soil_test.potassium)]>>
    /\ UNCHANGED <<soil_test, recommendations, health, db, last_id, response>>

Next == Recommend \/ Analyze \/ Dosage

Spec == Init /\ [][Next]_vars

\* ---------------------------------------------------------------- models.py: SoilTestDB

\* The row that INSERT writes for a SoilTest under a new id (created_at and
\* updated_at are never read back and are left out).
Row(id, test) ==
    [id |-> id, location |-> test.location, latitude |-> test.latitude,
     longitude |-> test.longitude, ph |-> test.ph, nitrogen |-> test.nitrogen,
     phosphorus |-> test.phosphorus, potassium |-> test.potassium,
     notes |-> test.notes, test_date |-> test.test_date]

\* SoilTestDB.create_test: the table after the INSERT; the new id (lastrowid)
\* is last_id + 1, AUTOINCREMENT never handing an id out twice.
create_test(table, test_id, test) ==
    [i \in DOMAIN table \cup {test_id} |->
        IF i = test_id THEN Row(test_id, test) ELSE table[i]]

\* SoilTestDB.get_test_by_id: <<>> for None, else <<the SoilTest of the row>>.
get_test_by_id(table, test_id, today) ==
    IF test_id \in DOMAIN table
    THEN LET row == table[test_id]
         IN  <<SoilTest(<<row.id>>, row.location, row.latitude, row.longitude, row.ph, row.nitrogen, row.phosphorus, row.potassium, row.notes, <<row.test_date>>, today)>>
    ELSE <<>>

\* Mutant of update_test: the UPDATE sets test_date too.
update_test_SetsTestDate(table, test) ==
    [i \in DOMAIN table |->
        IF <<i>> = test.id
        THEN [table[i] EXCEPT !.location = test.location,
                              !.latitude = test.latitude,
                              !.longitude = test.longitude,
                              !.ph = test.ph,
                              !.nitrogen = test.nitrogen,
                              !.phosphorus = test.phosphorus,
                              !.potassium = test.potassium,
                              !.notes = test.notes,
                              !.test_date = test.test_date]
        ELSE table[i]]

\* SoilTestDB.update_test: the UPDATE sets location, latitude, longitude, ph,
\* nitrogen, phosphorus, potassium and notes of the row WHERE id = test.id.
update_test(table, test) ==
    [i \in DOMAIN table |->
        IF <<i>> = test.id
        THEN [table[i] EXCEPT !.location = test.location,
                              !.latitude = test.latitude,
                              !.longitude = test.longitude,
                              !.ph = test.ph,
                              !.nitrogen = test.nitrogen,
                              !.phosphorus = test.phosphorus,
                              !.potassium = test.potassium,
                              !.notes = test.notes]
        ELSE table[i]]

\* SoilTestDB.delete_test
delete_test(table, test_id) ==
    [i \in DOMAIN table \ {test_id} |-> table[i]]

\* ---------------------------------------------------------------- utils.py: validation

\* dict.get(key, default) on a request payload, whose absent keys hold <<>>.
Get(data, key, default) == IF data[key] = <<>> THEN default ELSE data[key][1]

\* str.strip(), on the locations the requests carry (none of them has
\* whitespace around other characters).
Strip(string) == IF string \in {"", " ", "  "} THEN "" ELSE string

\* Mutant of validate_soil_test_data: the upper end of the pH range is not
\* checked.
validate_soil_test_data_NoUpperPh(data) ==
    (IF Strip(Get(data, "location", "")) = "" THEN <<"Location is required">> ELSE <<>>)
    \o (LET ph == Get(data, "ph", 0)
        IN  IF ph < Dec(0, 0)
            THEN <<"pH must be between 0 and 14">> ELSE <<>>)
    \o (IF Get(data, "nitrogen", 0) < 0
        THEN <<"Nitrogen must be a positive number">> ELSE <<>>)
    \o (IF Get(data, "phosphorus", 0) < 0
        THEN <<"Phosphorus must be a positive number">> ELSE <<>>)
    \o (IF Get(data, "potassium", 0) < 0
        THEN <<"Potassium must be a positive number">> ELSE <<>>)
    \o (IF data.latitude # <<>>
            /\ (data.latitude[1] < Dec(-90, 0) \/ data.latitude[1] > Dec(90, 0))
        THEN <<"Latitude must be between -90 and 90">> ELSE <<>>)
    \o (IF data.longitude # <<>>
            /\ (data.longitude[1] < Dec(-180, 0) \/ data.longitude[1] > Dec(180, 0))
        THEN <<"Longitude must be between -180 and 180">> ELSE <<>>)

validate_soil_test_data(data) ==
    (IF Strip(Get(data, "location", "")) = "" THEN <<"Location is required">> ELSE <<>>)
    \o (LET ph == Get(data, "ph", 0)
        IN  IF ph < Dec(0, 0) \/ ph > Dec(14, 0)
            THEN <<"pH must be between 0 and 14">> ELSE <<>>)
    \o (IF Get(data, "nitrogen", 0) < 0
        THEN <<"Nitrogen must be a positive number">> ELSE <<>>)
    \o (IF Get(data, "phosphorus", 0) < 0
        THEN <<"Phosphorus must be a positive number">> ELSE <<>>)
    \o (IF Get(data, "potassium", 0) < 0
        THEN <<"Potassium must be a positive number">> ELSE <<>>)
    \o (IF data.latitude # <<>>
            /\ (data.latitude[1] < Dec(-90, 0) \/ data.latitude[1] > Dec(90, 0))
        THEN <<"Latitude must be between -90 and 90">> ELSE <<>>)
    \o (IF data.longitude # <<>>
            /\ (data.longitude[1] < Dec(-180, 0) \/ data.longitude[1] > Dec(180, 0))
        THEN <<"Longitude must be between -180 and 180">> ELSE <<>>)

\* ---------------------------------------------------------------- app.py: the handlers

\* The keys that the handlers read as data[key]: the first one the payload
\* lacks raises KeyError, which the handler turns into a 500 response.
MissingKeys(data) ==
    SelectSeq(<<"location", "ph", "nitrogen", "phosphorus", "potassium">>,
              LAMBDA k : data[k] = <<>>)

\* A response: the request it answers, the status and the JSON body.
Response(endpoint, test_id, status, body) ==
    [endpoint |-> endpoint, test_id |-> test_id, status |-> status, body |-> body]

\* What a handler leaves behind: the table, the id sequence and the response.
Outcome(table, id, resp) == [db |-> table, last_id |-> id, response |-> resp]

\* POST /api/soil-tests
create_soil_test(data, today) ==
    LET errors == validate_soil_test_data(data)
        test_id == last_id + 1
        test == SoilTest(<<>>, data.location[1], data.latitude, data.longitude, data.ph[1], data.nitrogen[1], data.phosphorus[1], data.potassium[1], Get(data, "notes", ""), <<Get(data, "testDate", today)>>, today)
        saved == [test EXCEPT !.id = <<test_id>>]
    IN  IF errors # <<>> THEN
            Outcome(db, last_id, Response("create_soil_test", <<>>, 400, [errors |-> errors]))
        ELSE IF MissingKeys(data) # <<>> THEN
            Outcome(db, last_id, Response("create_soil_test", <<>>, 500, [error |-> MissingKeys(data)[1]]))
        ELSE
            Outcome(create_test(db, test_id, test), test_id,
                    Response("create_soil_test", <<test_id>>, 201,
                             to_dict(saved) @@ [recommendations |-> generate_fertilizer_recommendations(saved)]))

\* Mutant of get_soil_test: the recommendations are computed but not merged
\* into the response.
get_soil_test_Unmerged(test_id, today) ==
    LET test == get_test_by_id(db, test_id, today)
    IN  IF test = <<>> THEN
            Outcome(db, last_id, Response("get_soil_test", <<test_id>>, 404, [error |-> "Test not found"]))
        ELSE
            Outcome(db, last_id,
                    Response("get_soil_test", <<test_id>>, 200,
                             to_dict(test[1])))

\* GET /api/soil-tests/<test_id>
get_soil_test(test_id, today) ==
    LET test == get_test_by_id(db, test_id, today)
    IN  IF test = <<>> THEN
            Outcome(db, last_id, Response("get_soil_test", <<test_id>>, 404, [error |-> "Test not found"]))
        ELSE
            Outcome(db, last_id,
                    Response("get_soil_test", <<test_id>>, 200,
                             to_dict(test[1]) @@ [recommendations |-> generate_fertilizer_recommendations(test[1])]))

\* PUT /api/soil-tests/<test_id>
update_soil_test(test_id, data, today) ==
    LET errors == validate_soil_test_data(data)
        existing_test == get_test_by_id(db, test_id, today)
        test == SoilTest(<<test_id>>, data.location[1], data.latitude, data.longitude, data.ph[1], data.nitrogen[1], data.phosphorus[1], data.potassium[1], Get(data, "notes", ""), <<Get(data, "testDate", existing_test[1].test_date)>>, today)
    IN  IF errors # <<>> THEN
            Outcome(db, last_id, Response("update_soil_test", <<test_id>>, 400, [errors |-> errors]))
        ELSE IF existing_test = <<>> THEN
            Outcome(db, last_id, Response("update_soil_test", <<test_id>>, 404, [error |-> "Test not found"]))
        ELSE IF MissingKeys(data) # <<>> THEN
            Outcome(db, last_id, Response("update_soil_test", <<test_id>>, 500, [error |-> MissingKeys(data)[1]]))
        ELSE
            Outcome(update_test(db, test), last_id,
                    Response("update_soil_test", <<test_id>>, 200, to_dict(test)))

\* DELETE /api/soil-tests/<test_id>
delete_soil_test(test_id, today) ==
    IF get_test_by_id(db, test_id, today) = <<>> THEN
        Outcome(db, last_id, Response("delete_soil_test", <<test_id>>, 404, [error |-> "Test not found"]))
    ELSE
        Outcome(delete_test(db, test_id), last_id,
                Response("delete_soil_test", <<test_id>>, 200, [message |-> "Test deleted successfully"]))

\* GET /api/recommendations/<test_id>
get_recommendations(test_id, today) ==
    LET test == get_test_by_id(db, test_id, today)
    IN  IF test = <<>> THEN
            Outcome(db, last_id, Response("get_recommendations", <<test_id>>, 404, [error |-> "Test not found"]))
        ELSE
            Outcome(db, last_id,
                    Response("get_recommendations", <<test_id>>, 200,
                             generate_fertilizer_recommendations(test[1])))

\* ---------------------------------------------------------------- the requests

\* The dates a request is made on (datetime.now()).
Dates == {"2024-05-01", "2024-05-02"}

\* A payload that carries only the required keys, with every measurement in
\* its adequate band.
BasePayload ==
    [location |-> <<"Field A">>, latitude |-> <<>>, longitude |-> <<>>,
     ph |-> <<Dec(6, 5000)>>, nitrogen |-> <<Dec(30, 0)>>,
     phosphorus |-> <<Dec(30, 0)>>, potassium |-> <<Dec(200, 0)>>,
     notes |-> <<>>, testDate |-> <<>>]

\* A payload that carries every key, and differs from the base one in each.
FullPayload ==
    [location |-> <<"Field B">>, latitude |-> <<Dec(45, 0)>>,
     longitude |-> <<Dec(-120, 0)>>,
     ph |-> <<Dec(5, 5000)>>, nitrogen |-> <<Dec(10, 0)>>,
     phosphorus |-> <<Dec(60, 0)>>, potassium |-> <<Dec(50, 0)>>,
     notes |-> <<"dry">>, testDate |-> <<"2024-04-01">>]

\* Request payloads that pass validation and carry every key the handlers read.
ValidPayloads == {BasePayload, FullPayload}

\* The ways one field of a payload goes wrong: absent, blank, or just past
\* the end of its range.
Faults ==
    {<<"location", <<"  ">>>>,
     <<"ph", <<>>>>, <<"ph", <<Dec(0, -1)>>>>, <<"ph", <<Dec(14, 1)>>>>,
     <<"nitrogen", <<Dec(0, -1)>>>>,
     <<"phosphorus", <<Dec(0, -1)>>>>,
     <<"potassium", <<Dec(0, -1)>>>>,
     <<"latitude", <<Dec(90, 1)>>>>}

\* The base payload with one fault, and the full one with three.
FaultyPayloads ==
    {[BasePayload EXCEPT ![f[1]] = f[2]] : f \in Faults}
    \cup {[FullPayload EXCEPT !.ph = <<Dec(15, 0)>>, !.nitrogen = <<Dec(-5, 0)>>,
                              !.longitude = <<Dec(180, 1)>>]}

Payloads == ValidPayloads \cup FaultyPayloads

\* The ids a request may name: every id handed out, and one never handed out.
TestIds == 1..(MaxTests + 1)

\* ---------------------------------------------------------------- the API, serving requests

ApiInit ==
    /\ soil_test = <<>>
    /\ recommendations = <<>>
    /\ health = <<>>
    /\ dosage = <<>>
    /\ db = <<>>
    /\ last_id = 0
    /\ response = <<>>

\* A handler's outcome becomes the state.
Serve(outcome) ==
    /\ db' = outcome.db
    /\ last_id' = outcome.last_id
    /\ response' = <<outcome.response>>
    /\ UNCHANGED <<soil_test, recommendations, health, dosage>>

Create ==
    \E data \in Payloads, today \in Dates :
        LET outcome == create_soil_test(data, today)
        IN  /\ outcome.last_id <= MaxTests
            /\ Serve(outcome)

GetOne == \E test_id \in TestIds, today \in Dates : Serve(get_soil_test(test_id, today))

Update ==
    \E test_id \in TestIds, data \in Payloads, today \in Dates :
        Serve(update_soil_test(test_id, data, today))

Delete == \E test_id \in TestIds, today \in Dates : Serve(delete_soil_test(test_id, today))

GetRecommendations ==
    \E test_id \in TestIds, today \in Dates : Serve(get_recommendations(test_id, today))

ApiNext == Create \/ GetOne \/ Update \/ Delete \/ GetRecommendations

ApiSpec == ApiInit /\ [][ApiNext]_vars

\* ================================================================ properties

\* The recommendation has been computed; Rec is the returned dict.
Done == recommendations # <<>>
Rec == recommendations[1]

\* The entries of the returned actions list for one nutrient.
ActionsOfType(type) == SelectSeq(Rec.actions, LAMBDA a : a.type = type)

\* The number interpolated into a dosage amount.
DosageAmount(n) == F("{} lbs per 1000 sq ft", <<n>>)

\* high > medium > low
Severity(priority) ==
    CASE priority = "high" -> 3
      [] priority = "medium" -> 2
      [] priority = "low" -> 1
      [] OTHER -> 0

\* The largest severity among the entries of a list of actions; that of low
\* for the empty list.
MaxSeverity(actions) ==
    IF actions = <<>> THEN Severity("low")
    ELSE CHOOSE m \in {Severity(actions[i].priority) : i \in DOMAIN actions} :
            \A j \in DOMAIN actions : Severity(actions[j].priority) <= m

\* C1: the returned priority is the maximum priority over the returned
\* actions (high > medium > low), and low when there are no actions.
C1_PriorityIsMaxOfActions ==
    Done => /\ Rec.priority \in {"low", "medium", "high"}
            /\ Severity(Rec.priority) = MaxSeverity(Rec.actions)
            /\ Rec.actions = <<>> => Rec.priority = "low"

\* C1 witness: a medium roll-up over a list that holds a medium and a low action.
C1_Witness ==
    /\ Done
    /\ Rec.priority = "medium"
    /\ \E i, j \in DOMAIN Rec.actions :
        Rec.actions[i].priority = "medium" /\ Rec.actions[j].priority = "low"

\* C2: a pH action is emitted exactly when ph < 6.0 (lime, acidic) or
\* ph > 7.5 (sulfur, alkaline), never both; for 6.0 <= ph <= 7.5, the two ends
\* included, none is emitted and the message is the optimal one.
C2_PhActionOutsideOptimalOnly ==
    Done =>
        LET ph == soil_test.ph
            pa == ActionsOfType("pH adjustment")
        IN  /\ Len(pa) <= 1
            /\ ph < Dec(6, 0) =>
                /\ Len(pa) = 1
                /\ pa[1].action = "Apply agricultural lime"
                /\ Rec.ph_recommendation =
                    F("Soil is acidic (pH {}). Apply lime to raise pH to 6.0-7.0 range for optimal nutrient availability.", <<ph>>)
            /\ ph > Dec(7, 5000) =>
                /\ Len(pa) = 1
                /\ pa[1].action = "Apply elemental sulfur"
                /\ Rec.ph_recommendation =
                    F("Soil is alkaline (pH {}). Apply sulfur or organic matter to lower pH.", <<ph>>)
            /\ (Dec(6, 0) <= ph /\ ph <= Dec(7, 5000)) =>
                /\ pa = <<>>
                /\ Rec.ph_recommendation =
                    F("pH level ({}) is optimal for most crops.", <<ph>>)

\* C2 witness: ph = 7.5 exactly, and no pH action is returned.
C2_Witness ==
    /\ Done
    /\ soil_test.ph = Dec(7, 5000)
    /\ ActionsOfType("pH adjustment") = <<>>

\* Whether v lies outside the adequate band lo..hi.
OutsideBand(v, lo, hi) == v < lo \/ v > hi

\* C3: the actions list holds exactly one entry for each of nitrogen,
\* phosphorus and potassium whose value is outside its adequate band
\* (20..50, 15..50, 100..300) and none for a nutrient inside its band, the
\* band's two ends included.
C3_OneActionPerNutrientOutsideBand ==
    Done =>
        /\ Len(ActionsOfType("nitrogen")) =
            IF OutsideBand(soil_test.nitrogen, Dec(20, 0), Dec(50, 0)) THEN 1 ELSE 0
        /\ Len(ActionsOfType("phosphorus")) =
            IF OutsideBand(soil_test.phosphorus, Dec(15, 0), Dec(50, 0)) THEN 1 ELSE 0
        /\ Len(ActionsOfType("potassium")) =
            IF OutsideBand(soil_test.potassium, Dec(100, 0), Dec(300, 0)) THEN 1 ELSE 0

\* C3 witness: nitrogen = 50, phosphorus = 15 and potassium = 300, the ends of
\* the bands, with an acidic ph: the pH action is the only one returned.
C3_Witness ==
    /\ Done
    /\ soil_test.nitrogen = Dec(50, 0)
    /\ soil_test.phosphorus = Dec(15, 0)
    /\ soil_test.potassium = Dec(300, 0)
    /\ Len(Rec.actions) = 1
    /\ Rec.actions[1].type = "pH adjustment"

\* The input (ph=5.5, nitrogen=10, phosphorus=10, potassium=50).
C4_Input ==
    /\ soil_test.ph = Dec(5, 5000)
    /\ soil_test.nitrogen = Dec(10, 0)
    /\ soil_test.phosphorus = Dec(10, 0)
    /\ soil_test.potassium = Dec(50, 0)

\* The result on C4_Input with the given lime and potassium dosages: ph
\* acidic, nitrogen low with dosage 2, phosphorus low with dosage 2, potassium
\* low, priority high, 4 actions.
C4_Result(lime, potassium) ==
    /\ Rec.ph_recommendation.template =
        "Soil is acidic (pH {}). Apply lime to raise pH to 6.0-7.0 range for optimal nutrient availability."
    /\ Rec.nitrogen_recommendation.template =
        "Low nitrogen levels ({} ppm). Apply nitrogen-rich fertilizer or compost."
    /\ Rec.phosphorus_recommendation.template =
        "Low phosphorus levels ({} ppm). Apply phosphorus fertilizer for strong root development."
    /\ Rec.potassium_recommendation.template =
        "Low potassium levels ({} ppm). Apply potassium fertilizer for plant health and disease resistance."
    /\ Len(Rec.actions) = 4
    /\ Rec.actions[1].action = "Apply agricultural lime"
    /\ Rec.actions[1].amount = DosageAmount(lime)
    /\ Rec.actions[2].amount = DosageAmount(2)
    /\ Rec.actions[3].amount = DosageAmount(2)
    /\ Rec.actions[4].amount = DosageAmount(potassium)
    /\ Rec.priority = "high"

\* C4 as stated: on (5.5, 10, 10, 50) the lime dosage is 12 and the potassium
\* dosage is 4.
C4_Original == (Done /\ C4_Input) => C4_Result(12, 4)

\* C4 as amended: on (5.5, 10, 10, 50) ph is acidic with a lime dosage of 8,
\* nitrogen low with dosage 2, phosphorus low with dosage 2, potassium low
\* with dosage 3, the priority is high and there are exactly 4 actions.
C4_Scenario == (Done /\ C4_Input) => C4_Result(8, 3)

\* C4 witness: the engine has run on (5.5, 10, 10, 50).
C4_Witness == Done /\ C4_Input /\ Len(Rec.actions) = 4

\* C5: on every input, implausible ones included, the result has its seven
\* fields set, every text non-empty, and the priority and every action's
\* priority among low, medium, high.
C5_Total ==
    Done =>
        /\ DOMAIN Rec = {"overall", "ph_recommendation", "nitrogen_recommendation",
                         "phosphorus_recommendation", "potassium_recommendation",
                         "priority", "actions"}
        /\ \A f \in {"overall", "ph_recommendation", "nitrogen_recommendation",
                     "phosphorus_recommendation", "potassium_recommendation"} :
                Rec[f].template # ""
        /\ Rec.priority \in {"low", "medium", "high"}
        /\ \A i \in DOMAIN Rec.actions :
            /\ Rec.actions[i].priority \in {"low", "medium", "high"}
            /\ Rec.actions[i].type # ""
            /\ Rec.actions[i].action # ""
            /\ Rec.actions[i].amount.template # ""

\* C5 witness: a result for negative nitrogen, phosphorus and potassium and a
\* ph above 14.
C5_Witness ==
    /\ Done
    /\ soil_test.ph > Dec(14, 0)
    /\ soil_test.nitrogen < 0
    /\ soil_test.phosphorus < 0
    /\ soil_test.potassium < 0

\* C6: the lime dosage is non-increasing in ph and takes the values 15, 12,
\* 8, 5; the sulfur dosage is non-decreasing in ph and takes the values 3, 6,
\* 10.  The dosages computed for the soil test's ph are compared with those
\* of every other ph.
C6_DosageMonotone ==
    dosage # <<>> =>
        /\ dosage[1].lime \in {15, 12, 8, 5}
        /\ dosage[1].sulfur \in {3, 6, 10}
        /\ \A ph2 \in PhInputs :
            soil_test.ph <= ph2 =>
                /\ dosage[1].lime >= calculate_lime_requirement(ph2)
                /\ dosage[1].sulfur <= calculate_sulfur_requirement(ph2)
        /\ \A ph1 \in PhInputs :
            ph1 <= soil_test.ph =>
                /\ calculate_lime_requirement(ph1) >= dosage[1].lime
                /\ calculate_sulfur_requirement(ph1) <= dosage[1].sulfur

\* C6 witness: the dosages at a ph between 7.5 and 8.0, where lime is 5 and
\* sulfur is 6, with smaller and larger dosages on either side.
C6_Witness ==
    /\ dosage # <<>>
    /\ dosage[1].lime = 5
    /\ dosage[1].sulfur = 6
    /\ \E ph1, ph2 \in PhInputs :
        /\ ph1 < soil_test.ph /\ soil_test.ph < ph2
        /\ calculate_sulfur_requirement(ph1) = 3
        /\ calculate_sulfur_requirement(ph2) = 10
        /\ calculate_lime_requirement(ph1) = 15

\* The three nested bands of each measurement, tightest first, as <<lo, hi>>.
C7_Bands ==
    [ph |-> <<<<Dec(6, 0), Dec(7, 0)>>, <<Dec(5, 5000), Dec(7, 5000)>>, <<Dec(5, 0), Dec(8, 0)>>>>,
     nitrogen |-> <<<<Dec(20, 0), Dec(50, 0)>>, <<Dec(15, 0), Dec(60, 0)>>, <<Dec(10, 0), Dec(80, 0)>>>>,
     phosphorus |-> <<<<Dec(15, 0), Dec(50, 0)>>, <<Dec(10, 0), Dec(60, 0)>>, <<Dec(5, 0), Dec(80, 0)>>>>,
     potassium |-> <<<<Dec(100, 0), Dec(300, 0)>>, <<Dec(75, 0), Dec(400, 0)>>, <<Dec(50, 0), Dec(500, 0)>>>>]

\* 1.0, 0.7, 0.4 for the first, second, third band.
C7_Points == <<Dec(1, 0), Dec(0, 7000), Dec(0, 4000)>>

\* The points of the tightest band that contains v, 0 when none does.
C7_Contribution(v, bands) ==
    LET holding == {i \in 1..3 : bands[i][1] <= v /\ v <= bands[i][2]}
    IN  IF holding = {} THEN 0
        ELSE C7_Points[CHOOSE i \in holding : \A j \in holding : i <= j]

\* C7: each measurement contributes 1.0, 0.7, 0.4 or 0 by the tightest of its
\* three nested bands that contains it; the score is the sum of the four
\* contributions / 4 x 100 and lies in 0..100; the status is Excellent from
\* 80, Good from 60, Fair from 40 and Poor below.
C7_HealthScore ==
    health # <<>> =>
        LET sum == C7_Contribution(soil_test.ph, C7_Bands.ph)
                   + C7_Contribution(soil_test.nitrogen, C7_Bands.nitrogen)
                   + C7_Contribution(soil_test.phosphorus, C7_Bands.phosphorus)
                   + C7_Contribution(soil_test.potassium, C7_Bands.potassium)
            score == health[1].score
        IN  /\ \A f \in DOMAIN C7_Bands :
                /\ C7_Bands[f][2][1] <= C7_Bands[f][1][1] /\ C7_Bands[f][1][2] <= C7_Bands[f][2][2]
                /\ C7_Bands[f][3][1] <= C7_Bands[f][2][1] /\ C7_Bands[f][2][2] <= C7_Bands[f][3][2]
            /\ 4 * score = 100 * sum
            /\ 0 <= score /\ score <= Dec(100, 0)
            /\ health[1].status =
                IF score >= Dec(80, 0) THEN "Excellent"
                ELSE IF score >= Dec(60, 0) THEN "Good"
                ELSE IF score >= Dec(40, 0) THEN "Fair"
                ELSE "Poor"

\* C7 witness: a score of exactly 60, which is Good, with one measurement
\* outside all of its bands and one in its widest band only.
C7_Witness ==
    /\ health # <<>>
    /\ health[1].score = Dec(60, 0)
    /\ health[1].status = "Good"
    /\ C7_Contribution(soil_test.ph, C7_Bands.ph) = Dec(0, 4000)
    /\ C7_Contribution(soil_test.potassium, C7_Bands.potassium) = 0

\* The last response, when it reports success.
Succeeded == response # <<>> /\ response[1].status \in {200, 201}

\* The stored row that the last response is about.
AnsweredRow == db[response[1].test_id[1]]

\* The fields of the soil test record, as the JSON of a stored row gives them.
C8_RecordFields(row) ==
    [id |-> <<row.id>>, location |-> row.location, latitude |-> row.latitude,
     longitude |-> row.longitude, ph |-> row.ph, nitrogen |-> row.nitrogen,
     phosphorus |-> row.phosphorus, potassium |-> row.potassium,
     notes |-> row.notes, testDate |-> row.test_date]

\* Whether a body is the merged response for a row: the record's fields, and
\* the engine's output for the row's measurements under 'recommendations'.
C8_Merged(body, row) ==
    /\ DOMAIN body = DOMAIN C8_RecordFields(row) \cup {"recommendations"}
    /\ \A f \in DOMAIN C8_RecordFields(row) : body[f] = C8_RecordFields(row)[f]
    /\ body.recommendations = generate_fertilizer_recommendations(row)

\* C8 as stated: a successful response of create, single-fetch and standalone
\* recommendation lookup is the merged response.
C8_Original ==
    (Succeeded /\ response[1].endpoint \in {"create_soil_test", "get_soil_test", "get_recommendations"})
        => C8_Merged(response[1].body, AnsweredRow)

\* C8 as amended: a successful response of create and of single-fetch is the
\* merged response; a successful response of the standalone recommendation
\* lookup is the engine's output alone, with none of the record's fields and
\* no 'recommendations' key.
C8_MergedOnCreateAndFetch ==
    /\ (Succeeded /\ response[1].endpoint \in {"create_soil_test", "get_soil_test"})
        => C8_Merged(response[1].body, AnsweredRow)
    /\ (Succeeded /\ response[1].endpoint = "create_soil_test")
        => response[1].status = 201
    /\ (Succeeded /\ response[1].endpoint = "get_recommendations")
        => /\ response[1].body = generate_fertilizer_recommendations(AnsweredRow)
           /\ DOMAIN response[1].body \cap (DOMAIN C8_RecordFields(AnsweredRow) \cup {"recommendations"}) = {}

\* C8 witness: a successful standalone lookup of a test with an acidic ph, the
\* second of two stored tests.
C8_Witness ==
    /\ Succeeded
    /\ response[1].endpoint = "get_recommendations"
    /\ response[1].test_id = <<2>>
    /\ DOMAIN db = {1, 2}
    /\ response[1].body.priority = "high"
    /\ Len(response[1].body.actions) = 4

\* C9: only the pH action has priority high; a nitrogen, phosphorus or
\* potassium deficiency action has priority medium and an excess action has
\* priority low.  So the returned priority is high exactly when ph < 6.0 or
\* ph > 7.5, medium exactly when ph is in 6.0..7.5 and one of nitrogen < 20,
\* phosphorus < 15, potassium < 100 holds, and low otherwise.
C9_PriorityByCause ==
    Done =>
        LET phOut == soil_test.ph < Dec(6, 0) \/ soil_test.ph > Dec(7, 5000)
            deficient == [nitrogen |-> soil_test.nitrogen < Dec(20, 0),
                          phosphorus |-> soil_test.phosphorus < Dec(15, 0),
                          potassium |-> soil_test.potassium < Dec(100, 0)]
            anyDeficient == \E f \in DOMAIN deficient : deficient[f]
        IN  /\ \A i \in DOMAIN Rec.actions :
                LET a == Rec.actions[i]
                IN  IF a.type = "pH adjustment" THEN a.priority = "high"
                    ELSE /\ a.type \in DOMAIN deficient
                         /\ a.priority = IF deficient[a.type] THEN "medium" ELSE "low"
            /\ Rec.priority = "high" <=> phOut
            /\ Rec.priority = "medium" <=> (~phOut /\ anyDeficient)
            /\ Rec.priority = "low" <=> (~phOut /\ ~anyDeficient)

\* C9 witness: three excess actions and nothing else, and the priority is low.
C9_Witness ==
    /\ Done
    /\ Len(Rec.actions) = 3
    /\ \A i \in DOMAIN Rec.actions : Rec.actions[i].priority = "low"
    /\ Rec.priority = "low"

\* The position of a nutrient in the evaluation order pH, nitrogen,
\* phosphorus, potassium.
C10_Position(type) ==
    CASE type = "pH adjustment" -> 1
      [] type = "nitrogen" -> 2
      [] type = "phosphorus" -> 3
      [] type = "potassium" -> 4
      [] OTHER -> 0

\* C10: the actions list is a subsequence of [pH, nitrogen, phosphorus,
\* potassium]: at most 4 entries, at most one per nutrient, in that order.
\* (The function reads nothing but its argument, so two calls on the same
\* measurements return the same list.)
C10_ActionsInFixedOrder ==
    Done =>
        /\ Len(Rec.actions) <= 4
        /\ \A i \in DOMAIN Rec.actions : C10_Position(Rec.actions[i].type) \in 1..4
        /\ \A i, j \in DOMAIN Rec.actions :
            i < j => C10_Position(Rec.actions[i].type) < C10_Position(Rec.actions[j].type)

\* C10 witness: all four nutrients have an entry.
C10_Witness ==
    /\ Done
    /\ Len(Rec.actions) = 4
    /\ Rec.actions[1].type = "pH adjustment"
    /\ Rec.actions[4].type = "potassium"
    /\ soil_test.ph > Dec(7, 5000)

\* Whether a stored row is inside the physical ranges.
C11_InRange(row) ==
    /\ Dec(0, 0) <= row.ph /\ row.ph <= Dec(14, 0)
    /\ row.nitrogen >= 0
    /\ row.phosphorus >= 0
    /\ row.potassium >= 0

\* C11: after any sequence of create, update and delete requests every stored
\* row has 0 <= ph <= 14 and nitrogen, phosphorus, potassium >= 0; and in
\* every state a create or update request whose payload fails
\* validate_soil_test_data is answered 400 and leaves the table as it is.
C11_StoreInPhysicalRanges ==
    /\ \A i \in DOMAIN db : C11_InRange(db[i])
    /\ \A data \in Payloads, today \in Dates :
        validate_soil_test_data(data) # <<>> =>
            /\ create_soil_test(data, today).response.status = 400
            /\ create_soil_test(data, today).db = db
            /\ \A test_id \in TestIds :
                /\ update_soil_test(test_id, data, today).response.status = 400
                /\ update_soil_test(test_id, data, today).db = db

\* C11 witness: two rows are stored, the first one updated to an acidic ph,
\* and the last request, an update of a stored row with a ph above 14, was
\* answered 400.
C11_Witness ==
    /\ DOMAIN db = {1, 2}
    /\ db[1].ph = Dec(5, 5000)
    /\ response # <<>>
    /\ response[1].endpoint = "update_soil_test"
    /\ response[1].test_id = <<2>>
    /\ response[1].status = 400
    /\ response[1].body.errors = <<"pH must be between 0 and 14">>

\* The numbers that the dosage amounts of the actions with a given action
\* text carry.
C12_Dosages(action) ==
    {Rec.actions[i].amount.args[1] :
        i \in {j \in DOMAIN Rec.actions :
                /\ Rec.actions[j].action = action
                /\ Rec.actions[j].amount.args # <<>>}}

\* C12: the fallback branches of the dosage helpers are never reached from
\* the engine: an emitted lime dosage is 15, 12 or 8 (never 5), a sulfur
\* dosage 10 or 6 (never 3), a nitrogen deficiency dosage 4 or 2, a phosphorus
\* deficiency dosage 3 or 2, a potassium deficiency dosage 4 or 3 (never 1);
\* and every such action carries its dosage.
C12_NoFallbackDosage ==
    Done =>
        /\ C12_Dosages("Apply agricultural lime") \subseteq {15, 12, 8}
        /\ C12_Dosages("Apply elemental sulfur") \subseteq {10, 6}
        /\ C12_Dosages("Apply nitrogen fertilizer (21-0-0 or similar)") \subseteq {4, 2}
        /\ C12_Dosages("Apply phosphorus fertilizer (0-46-0 or bone meal)") \subseteq {3, 2}
        /\ C12_Dosages("Apply potassium fertilizer (0-0-60 or potash)") \subseteq {4, 3}
        /\ \A i \in DOMAIN Rec.actions :
            Rec.actions[i].priority \in {"high", "medium"} =>
                /\ Rec.actions[i].amount.template = "{} lbs per 1000 sq ft"
                /\ Len(Rec.actions[i].amount.args) = 1

\* C12 witness: each helper is called with the largest value the engine hands
\* it: a lime dosage just below ph 6.0 and nitrogen, phosphorus and potassium
\* dosages just below 20, 15 and 100.
C12_Witness ==
    /\ Done
    /\ soil_test.ph = Dec(6, -1)
    /\ soil_test.nitrogen = Dec(20, -1)
    /\ soil_test.phosphorus = Dec(15, -1)
    /\ soil_test.potassium = Dec(100, -1)
    /\ C12_Dosages("Apply agricultural lime") = {8}
    /\ C12_Dosages("Apply nitrogen fertilizer (21-0-0 or similar)") = {2}
    /\ C12_Dosages("Apply phosphorus fertilizer (0-46-0 or bone meal)") = {2}
    /\ C12_Dosages("Apply potassium fertilizer (0-0-60 or potash)") = {3}

\* The soil test is inside the optimal ph range and all three adequate bands.
C13_GoodSoil ==
    /\ Dec(6, 0) <= soil_test.ph /\ soil_test.ph <= Dec(7, 5000)
    /\ Dec(20, 0) <= soil_test.nitrogen /\ soil_test.nitrogen <= Dec(50, 0)
    /\ Dec(15, 0) <= soil_test.phosphorus /\ soil_test.phosphorus <= Dec(50, 0)
    /\ Dec(100, 0) <= soil_test.potassium /\ soil_test.potassium <= Dec(300, 0)

\* C13: the engine returns no actions exactly on good soil, and on every such
\* soil test analyze_soil_health returns Excellent with a score of at least
\* 92.5, the score being 100 only when ph <= 7.0.
C13_GoodSoilIsExcellent ==
    /\ Done => (Rec.actions = <<>> <=> C13_GoodSoil)
    /\ (Done /\ health # <<>> /\ Rec.actions = <<>>) =>
        /\ health[1].status = "Excellent"
        /\ health[1].score >= Dec(92, 5000)
        /\ health[1].score = Dec(100, 0) => soil_test.ph <= Dec(7, 0)

\* C13 witness: no actions for a soil test at the ends of its bands with
\* ph = 7.5, whose health score is 92.5.
C13_Witness ==
    /\ Done
    /\ health # <<>>
    /\ Rec.actions = <<>>
    /\ soil_test.ph = Dec(7, 5000)
    /\ soil_test.nitrogen = Dec(20, 0)
    /\ soil_test.potassium = Dec(300, 0)
    /\ health[1].score = Dec(92, 5000)
    /\ health[1].status = "Excellent"

\* The last response answers a successful update.
C14_Updated ==
    /\ response # <<>>
    /\ response[1].endpoint = "update_soil_test"
    /\ response[1].status = 200

====
